---- MODULE Spec2Model ----
(***************************************************************************)
(* PBAM document workflow: OCR job submission, staging review and commit.  *)
(*                                                                         *)
(* Every HTTP request runs its use case inside one database session        *)
(* (get_db_session): repository saves are flushed into the session's       *)
(* transaction, the session is committed when the handler returns and      *)
(* rolled back when it raises.  A session reads the committed rows plus    *)
(* its own flushed writes.  Requests interleave at every await.            *)
(*                                                                         *)
(* Optional numbers are None (<<>>) or Some(n) (<<n>>); optional strings   *)
(* use NULL.  Amounts and rates are whole numbers.                         *)
(***************************************************************************)
EXTENDS Integers, Sequences, FiniteSets, TLC

\* ---- bounds of the model ------------------------------------------------
MaxRequests == 4     \* requests served in one behaviour
MaxConcurrent == 2   \* requests in flight at the same time
MaxJobs == 2         \* jobs created in the upload scenario
MaxReviewJobs == 1   \* jobs created in the review scenario

\* ---- values --------------------------------------------------------------
NULL == "null"
None == <<>>
Some(x) == <<x>>

Users == {"u1", "u2"}
FileBytes == {"pdfA", "pdfB"}
Slots == 1..MaxConcurrent

\* hashlib.sha256(file_bytes).hexdigest(): distinct bytes, distinct digests
Sha256(b) == IF b = "pdfA" THEN "3fa9" ELSE "c17e"

\* process_pdf(file_bytes).rows when the pipeline does not raise: pdfA is a
\* scanned statement read by the image fallback, whose third detection carries
\* no income/expense indicator (transaction_type None); pdfB is a KBANK
\* statement with one transfer to an account at another bank.
ScannedRow(n, amount, tx_type, words) ==
    [sort_order |-> n, amount |-> Some(amount), transaction_type |-> tx_type,
     payment_method |-> NULL, counterparty_ref |-> NULL,
     counterparty_name |-> NULL, description |-> words,
     transaction_date |-> NULL,
     confidence |-> [amount |-> 72, date |-> 0, transaction_type |-> 60,
                     description |-> 90, payment_method |-> 0],
     raw_text |-> words]

OcrRows(b) ==
    IF b = "pdfA"
    THEN << ScannedRow(0, 5, "expense", "paid 5.00"),
            ScannedRow(1, 7, "income", "received 7.00"),
            ScannedRow(2, 3, NULL, "3.00") >>
    ELSE << [sort_order |-> 0, amount |-> Some(9), transaction_type |-> "transfer",
             payment_method |-> "bank_transfer",
             counterparty_ref |-> "SCB X7290", counterparty_name |-> "somchai",
             description |-> "K PLUS to SCB X7290 somchai",
             transaction_date |-> "2026-01-31",
             confidence |-> [date |-> 99, amount |-> 99, transaction_type |-> 95,
                             payment_method |-> 85],
             raw_text |-> "31-01-26 10:15 K PLUS 9.00 to SCB X7290 somchai"] >>

EmptyMap == [x \in {} |-> NULL]
EmptySession == [jobs |-> EmptyMap, rows |-> EmptyMap, ledger |-> {}]

NoJob == [id |-> 0, user_id |-> NULL, file_hash |-> NULL,
          status |-> NULL, error_message |-> NULL, row_count |-> None]
NoResult == [outcome |-> "none", error |-> NULL, value |-> 0]
NoRequest == [kind |-> "none", rid |-> 0, user_id |-> NULL, file_bytes |-> NULL,
              job_id |-> 0, staging_id |-> <<0, 0>>, updates |-> EmptyMap]

VARIABLES
    dbJobs,     \* document.ocr_jobs, committed rows: job id -> OcrJob
    dbRows,     \* document.staging_transactions, committed rows: id -> row
    dbLedger,   \* finance.transactions, committed rows (a set of records)
    files,      \* number of files written under settings.storage_path
    nextId,     \* uuid4() for jobs: the next unused job id
    started,    \* number of requests started so far
    pc,         \* per slot: position of the request's handler
    req,        \* per slot: the request (use case and arguments)
    job,        \* per slot: the handler's OcrJob entity
    rows,       \* per slot: the handler's list of StagingTransaction entities
    idx,        \* per slot: position of commit_staging's loop in rows
    committed,  \* per slot: commit_staging's list `committed`
    result,     \* per slot: what the handler returned or raised
    sess,       \* per slot: writes flushed into the open session
    env,        \* process_pdf: what the external collaborators do with the bytes
    stage,      \* process_pdf: position in the pipeline
    called,     \* process_pdf: the parsers called so far, in order
    ocr_result, \* process_pdf: the OcrResult returned, or the exception raised
    line,       \* a parser's loop: the statement line being parsed
    tx_type,    \* a parser's loop: local variable tx_type
    rule,       \* a parser's loop: position in the loop body
    emitted,    \* a parser's loop: the ExtractedRow appended for the line
    written,    \* the date the argument of _parse_date was written from
    text,       \* _parse_date: the argument, a sequence of characters
    parsed,     \* _parse_date: the value returned, <<ISO string, confidence>>
    description,\* _detect_payment_method: the argument, a sequence of words
    scanned,    \* _detect_payment_method: table entries the loop has passed
    detected,   \* _detect_payment_method: the value returned, <<method>>
    parser,     \* a parser's run: which parser (process_pdf's fmt)
    lines,      \* a parser's run: the argument, the statement's lines
    doc_pc,     \* a parser's run: header check, loop or returned
    pos,        \* a parser's run: the line the loop is at
    pending,    \* _parse_bay_lines: the pending record, <<>> for None
    doc_rows,   \* a parser's run: local variable rows
    sort_order  \* a parser's run: local variable sort_order

dbVars == <<dbJobs, dbRows, dbLedger>>
workflowVars == <<dbJobs, dbRows, dbLedger, files, nextId, started,
                  pc, req, job, rows, idx, committed, result, sess>>
pipelineVars == <<env, stage, called, ocr_result>>
parserVars == <<line, tx_type, rule, emitted>>
dateVars == <<written, text, parsed>>
methodVars == <<description, scanned, detected>>
docVars == <<parser, lines, doc_pc, pos, pending, doc_rows, sort_order>>
\* what the request handlers leave alone
pureVars == <<pipelineVars, parserVars, dateVars,
             methodVars,
             docVars>>
vars == <<workflowVars, pipelineVars, parserVars, dateVars,
         methodVars,
         docVars>>

\* ---- session view ---------------------------------------------------------
\* what a SELECT issued in slot p's session sees
JobsView(p) == sess[p].jobs @@ dbJobs
RowsView(p) == sess[p].rows @@ dbRows

Raised(err) == [outcome |-> "raised", error |-> err, value |-> 0]
Returned(v) == [outcome |-> "returned", error |-> NULL, value |-> v]

\* ---- domain entities ------------------------------------------------------
mark_processing(j) == [j EXCEPT !.status = "processing"]
\* mark_review({"detections": ..., "row_count": n})
mark_review(j, n) == [j EXCEPT !.status = "review", !.row_count = Some(n)]
mark_committed(j) == [j EXCEPT !.status = "committed"]
mark_failed(j, error) == [j EXCEPT !.status = "failed", !.error_message = error]

\* ---- repositories ---------------------------------------------------------
\* OcrJobRepository.save: update status/error of the stored job, or insert
OcrJobSave(view, j) ==
    IF j.id \in DOMAIN view
    THEN [view[j.id] EXCEPT !.status = j.status, !.error_message = j.error_message,
                            !.row_count = j.row_count]
    ELSE j

\* OcrJobRepository.get_by_file_hash: the jobs the query selects
JobsByFileHash(view, file_hash, user_id) ==
    {i \in DOMAIN view : view[i].file_hash = file_hash /\ view[i].user_id = user_id}

\* StagingTransaction entity
mark_edited(r) == [r EXCEPT !.review_status = "edited"]
discard(r) == [r EXCEPT !.review_status = "discarded"]
confirm(r) == [r EXCEPT !.review_status = "confirmed"]
is_committable_unless_confirmed(r) == r.review_status # "confirmed"
is_committable(r) == r.review_status # "discarded"

\* OcrJobRepository.get_by_id: the job with that id owned by that user
OcrJobGetById(view, job_id, user_id) ==
    IF job_id \in DOMAIN view /\ view[job_id].user_id = user_id
    THEN view[job_id] ELSE NoJob

\* StagingTransactionRepository.get_by_id: ids of the rows the query selects
StagingGetByIdOfAnyUser(view, staging_id, user_id) ==
    {s \in DOMAIN view : s = staging_id}
StagingGetById(view, staging_id, user_id) ==
    {s \in DOMAIN view : s = staging_id /\ view[s].user_id = user_id}

\* StagingTransactionRepository.list_by_job: the job's rows of that user,
\* ordered by sort_order
StagingListByJob(view, job_id, user_id) ==
    LET ids == {s \in DOMAIN view : /\ view[s].ocr_job_id = job_id
                                    /\ view[s].user_id = user_id}
        n == Cardinality(ids)
        order == CHOOSE f \in [1..n -> ids] :
                    /\ \A a, b \in 1..n : a # b => f[a] # f[b]
                    /\ \A a, b \in 1..n :
                          a < b => view[f[a]].sort_order <= view[f[b]].sort_order
    IN  [i \in 1..n |-> view[order[i]]]

\* StagingTransactionRepository.save: an existing row takes the entity's
\* review status and editable fields; a new row is inserted with every column
\* but the two counterparty ones, which the statement does not set
StagingSave(view, r) ==
    IF r.id \in DOMAIN view
    THEN [view[r.id] EXCEPT !.review_status = r.review_status,
                            !.amount_thb = r.amount_thb,
                            !.transaction_type = r.transaction_type,
                            !.original_currency = r.original_currency,
                            !.exchange_rate = r.exchange_rate,
                            !.payment_method = r.payment_method,
                            !.description = r.description,
                            !.transaction_date = r.transaction_date]
    ELSE [r EXCEPT !.counterparty_ref = NULL, !.counterparty_name = NULL]

\* ---- finance --------------------------------------------------------------
SUPPORTED_CURRENCIES == {"THB", "USD", "EUR", "GBP", "JPY", "SGD", "CNY", "HKD",
                         "AUD", "CAD"}
TransactionTypes == {"income", "expense", "transfer"}

\* Money.__post_init__: neither amount may be negative
Money(amount_thb, original_amount, original_currency) ==
    IF amount_thb < 0 \/ original_amount < 0
    THEN [error |-> "ValueError"]
    ELSE [error |-> NULL, amount_thb |-> amount_thb,
          original_amount |-> original_amount,
          original_currency |-> original_currency]

\* _build_money(amount, currency, exchange_rate)
BuildMoney(amount, currency, exchange_rate) ==
    IF currency = "THB" THEN Money(amount, amount, "THB")
    ELSE IF exchange_rate = None THEN [error |-> "FinanceError"]
    ELSE IF currency \notin SUPPORTED_CURRENCIES THEN [error |-> "ValueError"]
    ELSE Money(amount * exchange_rate[1], amount, currency)

\* create_transaction as commit_staging calls it for one staging row (lines
\* 179-194): the Transaction it builds, or the error it raises
CreateTransaction(rid, user_id, job_id, r) ==
    LET money == BuildMoney(r.amount_thb[1],
                            IF r.original_currency = NULL THEN "THB"
                            ELSE r.original_currency,
                            r.exchange_rate)
    IN  IF money.error # NULL THEN [error |-> money.error]
        ELSE IF r.transaction_type \notin TransactionTypes
        THEN [error |-> "ValueError"]
        ELSE [error |-> NULL,
              tx |-> [id |-> <<rid, r.id>>, user_id |-> user_id,
                      amount_thb |-> money.amount_thb,
                      transaction_type |-> r.transaction_type,
                      source_document_id |-> job_id,
                      ocr_staging_id |-> r.id]]

\* update_staging_row lines 120-127: the keys an update may set
Allowed == {"account_id", "category_id", "amount_thb", "original_amount",
            "original_currency", "exchange_rate", "transaction_type",
            "payment_method", "description", "transaction_date", "tags"}
ApplyUpdatesAnyKey(r, updates) ==
    [f \in DOMAIN r |-> IF f \in DOMAIN updates THEN updates[f] ELSE r[f]]
ApplyUpdates(r, updates) ==
    [f \in DOMAIN r |-> IF f \in DOMAIN updates /\ f \in Allowed
                        THEN updates[f] ELSE r[f]]

\* the update dictionaries the model submits
UpdateChoices ==
    { ("amount_thb" :> Some(-1)),
      ("transaction_type" :> "expense"),
      ("original_currency" :> "USD") @@ ("exchange_rate" :> Some(2)) }

\* the dictionaries a direct caller of update_staging_row passes: also keys
\* outside the allowed set, which StagingRowUpdate never delivers
CallUpdates ==
    UpdateChoices \cup
    { ("transaction_type" :> "income") @@ ("raw_text" :> "forged")
         @@ ("review_status" :> "confirmed") @@ ("sort_order" :> 7)
         @@ ("user_id" :> "u2") @@ ("ocr_job_id" :> 2),
      ("payment_method" :> "cash") @@ ("description" :> "lunch")
         @@ ("transaction_date" :> "2026-02-01") }

\* the staging ids a request may name, for jobs 1..n
StagingIds(n) == {<<j, i>> : j \in 1..n,
                             i \in UNION {1..Len(OcrRows(b)) : b \in FileBytes}}

\* ---- initial state --------------------------------------------------------
\* nothing is being processed, parsed or normalised
PipelineIdle ==
    /\ env = NULL /\ stage = "idle" /\ called = <<>> /\ ocr_result = NULL
ParserIdle ==
    /\ line = NULL /\ tx_type = NULL /\ rule = "idle" /\ emitted = NULL
DateIdle ==
    /\ written = NULL /\ text = <<>> /\ parsed = <<>>
MethodIdle ==
    /\ description = <<>> /\ scanned = 0 /\ detected = <<>>
DocIdle ==
    /\ parser = NULL /\ lines = <<>> /\ doc_pc = "idle" /\ pos = 0
    /\ pending = <<>> /\ doc_rows = <<>> /\ sort_order = 0

\* empty database, no request in flight
WorkflowInit ==
    /\ dbJobs = EmptyMap
    /\ dbRows = EmptyMap
    /\ dbLedger = {}
    /\ files = 0
    /\ nextId = 1
    /\ started = 0
    /\ pc = [p \in Slots |-> "idle"]
    /\ req = [p \in Slots |-> NoRequest]
    /\ job = [p \in Slots |-> NoJob]
    /\ rows = [p \in Slots |-> <<>>]
    /\ idx = [p \in Slots |-> 0]
    /\ committed = [p \in Slots |-> <<>>]
    /\ result = [p \in Slots |-> NoResult]
    /\ sess = [p \in Slots |-> EmptySession]

Init == WorkflowInit /\ PipelineIdle /\ ParserIdle /\ DateIdle /\ MethodIdle /\ DocIdle

\* ---- request arrival ------------------------------------------------------
\* a request is served by the lowest free slot
FreeSlot(p) ==
    /\ pc[p] = "idle"
    /\ \A q \in Slots : q < p => pc[q] # "idle"
    /\ started < MaxRequests

Begin(p, r, entry) ==
    /\ started' = started + 1
    /\ req' = [req EXCEPT ![p] = [r EXCEPT !.rid = started + 1]]
    /\ pc' = [pc EXCEPT ![p] = entry]
    /\ UNCHANGED <<dbVars, files, nextId, job, rows, idx, committed, result, sess>>
    /\ UNCHANGED pureVars

\* submissions that have not yet drawn their job id
AwaitingId == {q \in Slots : pc[q] \in {"s_lookup", "s_create"}}

\* POST /ocr/upload -> facade.submit_ocr_job(user, filename, file_bytes)
StartSubmit(p, users, uploads, maxJobs) ==
    /\ FreeSlot(p)
    /\ \E u \in users, b \in uploads :
        /\ \/ nextId + Cardinality(AwaitingId) <= maxJobs
           \/ JobsByFileHash(dbJobs, Sha256(b), u) # {}
        /\ Begin(p, [NoRequest EXCEPT !.kind = "submit", !.user_id = u,
                                      !.file_bytes = b], "s_lookup")

\* POST /ocr/{job_id}/commit -> facade.commit_staging(job_id, user, account)
StartCommit(p, users, maxJobs) ==
    /\ FreeSlot(p)
    /\ \E u \in users, j \in 1..maxJobs :
        Begin(p, [NoRequest EXCEPT !.kind = "commit", !.user_id = u,
                                   !.job_id = j], "c_get")

\* PATCH /ocr/{job_id}/staging/{staging_id} -> facade.update_staging_row
StartUpdate(p, users, maxJobs) ==
    /\ FreeSlot(p)
    /\ \E u \in users, s \in StagingIds(maxJobs), upd \in UpdateChoices :
        Begin(p, [NoRequest EXCEPT !.kind = "update", !.user_id = u,
                                   !.staging_id = s, !.updates = upd], "u_get")

\* update_staging_row(staging_id=..., user_id=..., updates=...) called directly
StartUpdateCall(p, users, maxJobs) ==
    /\ FreeSlot(p)
    /\ \E u \in users, s \in StagingIds(maxJobs), upd \in CallUpdates :
        Begin(p, [NoRequest EXCEPT !.kind = "update", !.user_id = u,
                                   !.staging_id = s, !.updates = upd], "u_get")

\* DELETE /ocr/{job_id}/staging/{staging_id} -> facade.discard_staging_row
StartDiscard(p, users, maxJobs) ==
    /\ FreeSlot(p)
    /\ \E u \in users, s \in StagingIds(maxJobs) :
        Begin(p, [NoRequest EXCEPT !.kind = "discard", !.user_id = u,
                                   !.staging_id = s], "d_get")

\* ---- commit_staging -------------------------------------------------------
\* lines 160-164: load the job; it must exist and be in review
JobReadyOrCommitted(status) == status \in {"review", "committed"}
JobReady(status) == status = "review"

C_Get(p) ==
    /\ pc[p] = "c_get"
    /\ LET j == OcrJobGetById(JobsView(p), req[p].job_id, req[p].user_id)
       IN  /\ job' = [job EXCEPT ![p] = j]
           /\ IF j = NoJob
              THEN /\ pc' = [pc EXCEPT ![p] = "raised"]
                   /\ result' = [result EXCEPT ![p] = Raised("DocumentError")]
              ELSE IF ~JobReady(j.status)
              THEN /\ pc' = [pc EXCEPT ![p] = "raised"]
                   /\ result' = [result EXCEPT ![p] = Raised("JobNotReadyError")]
              ELSE /\ pc' = [pc EXCEPT ![p] = "c_list"]
                   /\ UNCHANGED result
    /\ UNCHANGED <<dbVars, files, nextId, started, req, rows, idx, committed, sess>>
    /\ UNCHANGED pureVars

\* lines 166-169: list the job's rows, keep the committable ones
Committable(rs) == SelectSeq(rs, is_committable)

C_List(p) ==
    /\ pc[p] = "c_list"
    /\ rows' = [rows EXCEPT ![p] =
                   StagingListByJob(RowsView(p), req[p].job_id, req[p].user_id)]
    /\ idx' = [idx EXCEPT ![p] = 1]
    /\ committed' = [committed EXCEPT ![p] = <<>>]
    /\ pc' = [pc EXCEPT ![p] = "c_row"]
    /\ UNCHANGED <<dbVars, files, nextId, started, req, job, result, sess>>
    /\ UNCHANGED pureVars

\* lines 170-194: the next committable row is skipped when incomplete,
\* otherwise its ledger transaction is created (create_transaction or the
\* transaction repository may raise)
IncompleteAmountOnly(r) == r.amount_thb = None
Incomplete(r) == r.amount_thb = None \/ r.transaction_type = NULL

C_Row(p) ==
    /\ pc[p] = "c_row"
    /\ idx[p] <= Len(Committable(rows[p]))
    /\ LET r == Committable(rows[p])[idx[p]]
           made == CreateTransaction(req[p].rid, req[p].user_id, req[p].job_id, r)
       IN  IF Incomplete(r)
           THEN /\ idx' = [idx EXCEPT ![p] = @ + 1]
                /\ UNCHANGED <<pc, result, sess>>
           ELSE IF made.error # NULL
           THEN /\ pc' = [pc EXCEPT ![p] = "raised"]
                /\ result' = [result EXCEPT ![p] = Raised(made.error)]
                /\ UNCHANGED <<idx, sess>>
           ELSE \/ /\ sess' = [sess EXCEPT ![p].ledger = @ \cup {made.tx}]
                   /\ pc' = [pc EXCEPT ![p] = "c_confirm"]
                   /\ UNCHANGED <<idx, result>>
                \/ /\ pc' = [pc EXCEPT ![p] = "raised"]
                   /\ result' = [result EXCEPT ![p] = Raised("SaveError")]
                   /\ UNCHANGED <<idx, sess>>
    /\ UNCHANGED <<dbVars, files, nextId, started, req, job, rows, committed>>
    /\ UNCHANGED pureVars

\* the position in rs of the row with that id
IndexOf(rs, id) == CHOOSE i \in 1..Len(rs) : rs[i].id = id

\* lines 195-197: confirm the row, save it, append the transaction
C_Confirm(p) ==
    /\ pc[p] = "c_confirm"
    /\ LET r == confirm(Committable(rows[p])[idx[p]])
       IN  /\ rows' = [rows EXCEPT ![p][IndexOf(rows[p], r.id)] = r]
           /\ \/ /\ sess' = [sess EXCEPT ![p].rows =
                                (r.id :> StagingSave(RowsView(p), r)) @@ @]
                 /\ committed' = [committed EXCEPT ![p] = Append(@, <<req[p].rid, r.id>>)]
                 /\ idx' = [idx EXCEPT ![p] = @ + 1]
                 /\ pc' = [pc EXCEPT ![p] = "c_row"]
                 /\ UNCHANGED result
              \/ /\ pc' = [pc EXCEPT ![p] = "raised"]
                 /\ result' = [result EXCEPT ![p] = Raised("SaveError")]
                 /\ UNCHANGED <<sess, committed, idx>>
    /\ UNCHANGED <<dbVars, files, nextId, started, req, job>>
    /\ UNCHANGED pureVars

\* lines 199-201: mark the job committed, save it, return len(committed)
C_Job(p) ==
    /\ pc[p] = "c_row"
    /\ idx[p] > Len(Committable(rows[p]))
    /\ LET j == mark_committed(job[p])
       IN  /\ job' = [job EXCEPT ![p] = j]
           /\ \/ /\ sess' = [sess EXCEPT ![p].jobs =
                                (j.id :> OcrJobSave(JobsView(p), j)) @@ @]
                 /\ pc' = [pc EXCEPT ![p] = "returned"]
                 /\ result' = [result EXCEPT ![p] = Returned(Len(committed[p]))]
              \/ /\ pc' = [pc EXCEPT ![p] = "raised"]
                 /\ result' = [result EXCEPT ![p] = Raised("SaveError")]
                 /\ UNCHANGED sess
    /\ UNCHANGED <<dbVars, files, nextId, started, req, rows, idx, committed>>
    /\ UNCHANGED pureVars

\* ---- update_staging_row / discard_staging_row -----------------------------
\* lines 116-118 and 140-142: load the row of that user or raise
GetRow(p, next) ==
    /\ LET found == StagingGetById(RowsView(p), req[p].staging_id, req[p].user_id)
       IN  IF found = {}
           THEN /\ pc' = [pc EXCEPT ![p] = "raised"]
                /\ result' = [result EXCEPT ![p] = Raised("DocumentError")]
                /\ UNCHANGED rows
           ELSE /\ pc' = [pc EXCEPT ![p] = next]
                /\ rows' = [rows EXCEPT ![p] = <<RowsView(p)[req[p].staging_id]>>]
                /\ UNCHANGED result
    /\ UNCHANGED <<dbVars, files, nextId, started, req, job, idx, committed, sess>>
    /\ UNCHANGED pureVars

\* the handler's row entity r is saved, or the save raises
SaveRow(p, r) ==
    /\ rows' = [rows EXCEPT ![p] = <<r>>]
    /\ \/ /\ sess' = [sess EXCEPT ![p].rows =
                         (r.id :> StagingSave(RowsView(p), r)) @@ @]
          /\ pc' = [pc EXCEPT ![p] = "returned"]
          /\ result' = [result EXCEPT ![p] = Returned(0)]
       \/ /\ pc' = [pc EXCEPT ![p] = "raised"]
          /\ result' = [result EXCEPT ![p] = Raised("SaveError")]
          /\ UNCHANGED sess
    /\ UNCHANGED <<dbVars, files, nextId, started, req, job, idx, committed>>
    /\ UNCHANGED pureVars

U_Get(p) == pc[p] = "u_get" /\ GetRow(p, "u_save")

\* lines 120-130: set the allowed keys, mark_edited, save
U_Save(p) ==
    /\ pc[p] = "u_save"
    /\ SaveRow(p, mark_edited(ApplyUpdates(rows[p][1], req[p].updates)))

D_Get(p) == pc[p] = "d_get" /\ GetRow(p, "d_save")

\* lines 143-144: discard, save
D_Save(p) ==
    /\ pc[p] = "d_save"
    /\ SaveRow(p, discard(rows[p][1]))

\* ---- submit_ocr_job -------------------------------------------------------
\* lines 40-45: hash the bytes, look the hash up, reject a duplicate.
\* scalar_one_or_none() raises MultipleResultsFound on more than one match.
S_Lookup(p) ==
    /\ pc[p] = "s_lookup"
    /\ LET file_hash == Sha256(req[p].file_bytes)
           found == JobsByFileHash(JobsView(p), file_hash, req[p].user_id)
       IN  IF Cardinality(found) > 1
           THEN /\ pc' = [pc EXCEPT ![p] = "raised"]
                /\ result' = [result EXCEPT ![p] = Raised("MultipleResultsFound")]
           ELSE IF found # {}
           THEN /\ pc' = [pc EXCEPT ![p] = "raised"]
                /\ result' = [result EXCEPT ![p] =
                       [Raised("DuplicateFileError") EXCEPT
                           !.value = CHOOSE i \in found : TRUE]]
           ELSE /\ pc' = [pc EXCEPT ![p] = "s_create"]
                /\ UNCHANGED result
    /\ UNCHANGED <<dbVars, files, nextId, started, req, job, rows, idx,
                   committed, sess>>
    /\ UNCHANGED pureVars

\* lines 47-61: write the bytes to storage, build the job in `pending`, save
\* it.  The save is outside the try block: if it raises, the handler raises.
S_Create(p) ==
    /\ pc[p] = "s_create"
    /\ files' = files + 1
    /\ nextId' = nextId + 1
    /\ LET j == [id |-> nextId, user_id |-> req[p].user_id,
                 file_hash |-> Sha256(req[p].file_bytes),
                 status |-> "pending", error_message |-> NULL,
                 row_count |-> None]
       IN  /\ job' = [job EXCEPT ![p] = j]
           /\ \/ /\ sess' = [sess EXCEPT ![p].jobs =
                                (j.id :> OcrJobSave(JobsView(p), j)) @@ @]
                 /\ pc' = [pc EXCEPT ![p] = "s_processing"]
                 /\ UNCHANGED result
              \/ /\ pc' = [pc EXCEPT ![p] = "raised"]
                 /\ result' = [result EXCEPT ![p] = Raised("SaveError")]
                 /\ UNCHANGED sess
    /\ UNCHANGED <<dbVars, started, req, rows, idx, committed>>
    /\ UNCHANGED pureVars

\* _run_ocr_and_stage lines 76-77: mark_processing, save
S_Processing(p) ==
    /\ pc[p] = "s_processing"
    /\ LET j == mark_processing(job[p])
       IN  /\ job' = [job EXCEPT ![p] = j]
           /\ \/ /\ sess' = [sess EXCEPT ![p].jobs =
                                (j.id :> OcrJobSave(JobsView(p), j)) @@ @]
                 /\ pc' = [pc EXCEPT ![p] = "s_stage"]
                 /\ UNCHANGED result
              \/ /\ pc' = [pc EXCEPT ![p] = "s_except"]
                 /\ result' = [result EXCEPT ![p] = Raised("SaveError")]
                 /\ UNCHANGED sess
    /\ UNCHANGED <<dbVars, files, nextId, started, req, rows, idx, committed>>
    /\ UNCHANGED pureVars

\* the StagingTransaction built from one ExtractedRow (lines 82-94)
NewStaging(j, i, row) ==
    [id |-> <<j.id, i>>, ocr_job_id |-> j.id, user_id |-> j.user_id,
     sort_order |-> row.sort_order, review_status |-> "pending",
     amount_thb |-> row.amount, transaction_type |-> row.transaction_type,
     original_currency |-> NULL, exchange_rate |-> None,
     payment_method |-> row.payment_method,
     counterparty_ref |-> NULL, counterparty_name |-> NULL,
     description |-> row.description,
     transaction_date |-> row.transaction_date,
     confidence |-> row.confidence, raw_text |-> row.raw_text]

\* _run_ocr_and_stage lines 79-97: process_pdf, build the staging rows,
\* bulk_save.  process_pdf may raise; bulk_save may raise after k rows.
S_Stage(p) ==
    /\ pc[p] = "s_stage"
    /\ LET extracted == OcrRows(req[p].file_bytes)
           staging == [i \in 1..Len(extracted) |-> NewStaging(job[p], i, extracted[i])]
           saved(k) == [s \in {staging[i].id : i \in 1..k} |->
                            staging[CHOOSE i \in 1..k : staging[i].id = s]]
       IN  \/ /\ pc' = [pc EXCEPT ![p] = "s_except"]
              /\ result' = [result EXCEPT ![p] = Raised("ParserError")]
              /\ UNCHANGED <<rows, sess>>
           \/ \E k \in 0..(Len(staging) - 1) :
              /\ pc' = [pc EXCEPT ![p] = "s_except"]
              /\ result' = [result EXCEPT ![p] = Raised("SaveError")]
              /\ rows' = [rows EXCEPT ![p] = staging]
              /\ sess' = [sess EXCEPT ![p].rows = saved(k) @@ @]
           \/ /\ pc' = [pc EXCEPT ![p] = "s_review"]
              /\ rows' = [rows EXCEPT ![p] = staging]
              /\ sess' = [sess EXCEPT ![p].rows = saved(Len(staging)) @@ @]
              /\ UNCHANGED result
    /\ UNCHANGED <<dbVars, files, nextId, started, req, job, idx, committed>>
    /\ UNCHANGED pureVars

\* _run_ocr_and_stage lines 99-100: mark_review, save, return the job
S_Review(p) ==
    /\ pc[p] = "s_review"
    /\ LET j == mark_review(job[p], Len(OcrRows(req[p].file_bytes)))
       IN  /\ job' = [job EXCEPT ![p] = j]
           /\ \/ /\ sess' = [sess EXCEPT ![p].jobs =
                                (j.id :> OcrJobSave(JobsView(p), j)) @@ @]
                 /\ pc' = [pc EXCEPT ![p] = "returned"]
                 /\ result' = [result EXCEPT ![p] = Returned(j.id)]
              \/ /\ pc' = [pc EXCEPT ![p] = "s_except"]
                 /\ result' = [result EXCEPT ![p] = Raised("SaveError")]
                 /\ UNCHANGED sess
    /\ UNCHANGED <<dbVars, files, nextId, started, req, rows, idx, committed>>
    /\ UNCHANGED pureVars

\* _run_ocr_and_stage lines 102-105: the except block marks the job failed
\* with the exception text, saves it and re-raises; when that save raises, its
\* exception is the one the caller gets
S_Except(p) ==
    /\ pc[p] = "s_except"
    /\ LET j == mark_failed(job[p], result[p].error)
       IN  /\ job' = [job EXCEPT ![p] = j]
           /\ \/ /\ sess' = [sess EXCEPT ![p].jobs =
                                (j.id :> OcrJobSave(JobsView(p), j)) @@ @]
                 /\ UNCHANGED result
              \/ /\ result' = [result EXCEPT ![p] = Raised("SaveError")]
                 /\ UNCHANGED sess
    /\ pc' = [pc EXCEPT ![p] = "raised"]
    /\ UNCHANGED <<dbVars, files, nextId, started, req, rows, idx, committed>>
    /\ UNCHANGED pureVars

\* ---- get_db_session -------------------------------------------------------
\* session.commit(): the table with the session's flushed rows written to it
AfterCommit(table, flushed) == flushed @@ table

\* session.rollback(): the table without the session's flushed rows
AfterRollbackKeepsWrites(table, flushed) == flushed @@ table
AfterRollback(table, flushed) == table

\* the handler returned: session.commit() makes the session's writes durable
SessionCommit(p) ==
    /\ pc[p] = "returned"
    /\ dbJobs' = AfterCommit(dbJobs, sess[p].jobs)
    /\ dbRows' = AfterCommit(dbRows, sess[p].rows)
    /\ dbLedger' = dbLedger \cup sess[p].ledger
    /\ sess' = [sess EXCEPT ![p] = EmptySession]
    /\ pc' = [pc EXCEPT ![p] = "done"]
    /\ UNCHANGED <<files, nextId, started, req, job, rows, idx, committed, result>>
    /\ UNCHANGED pureVars

\* the handler raised: session.rollback() drops the session's writes
SessionRollback(p) ==
    /\ pc[p] = "raised"
    /\ dbJobs' = AfterRollback(dbJobs, sess[p].jobs)
    /\ dbRows' = AfterRollback(dbRows, sess[p].rows)
    /\ dbLedger' = dbLedger
    /\ sess' = [sess EXCEPT ![p] = EmptySession]
    /\ pc' = [pc EXCEPT ![p] = "done"]
    /\ UNCHANGED <<files, nextId, started, req, job, rows, idx, committed, result>>
    /\ UNCHANGED pureVars

\* the response has been sent; the slot serves the next request
Recycle(p) ==
    /\ pc[p] = "done"
    /\ pc' = [pc EXCEPT ![p] = "idle"]
    /\ req' = [req EXCEPT ![p] = NoRequest]
    /\ job' = [job EXCEPT ![p] = NoJob]
    /\ rows' = [rows EXCEPT ![p] = <<>>]
    /\ idx' = [idx EXCEPT ![p] = 0]
    /\ committed' = [committed EXCEPT ![p] = <<>>]
    /\ result' = [result EXCEPT ![p] = NoResult]
    /\ UNCHANGED <<dbVars, files, nextId, started, sess>>
    /\ UNCHANGED pureVars

\* the steps of the handlers and of their sessions
Step(p) ==
    \/ C_Get(p) \/ C_List(p) \/ C_Row(p) \/ C_Confirm(p) \/ C_Job(p)
    \/ U_Get(p) \/ U_Save(p) \/ D_Get(p) \/ D_Save(p)
    \/ S_Lookup(p) \/ S_Create(p) \/ S_Processing(p) \/ S_Stage(p)
    \/ S_Review(p) \/ S_Except(p)
    \/ SessionCommit(p) \/ SessionRollback(p) \/ Recycle(p)

\* review scenario: one user uploads a statement, reviews and commits it
Owner == {"u1"}
Statement == {"pdfA"}

Next ==
    \E p \in Slots :
        \/ StartSubmit(p, Owner, Statement, MaxReviewJobs)
        \/ StartCommit(p, Owner, MaxReviewJobs)
        \/ StartUpdate(p, Owner, MaxReviewJobs)
        \/ StartDiscard(p, Owner, MaxReviewJobs)
        \/ Step(p)

Spec == Init /\ [][Next]_vars

\* upload scenario: two users upload files, possibly the same ones
UploadStep(p) ==
    \/ S_Lookup(p) \/ S_Create(p) \/ S_Processing(p) \/ S_Stage(p)
    \/ S_Review(p) \/ S_Except(p)
    \/ SessionCommit(p) \/ SessionRollback(p) \/ Recycle(p)

NextUpload ==
    \E p \in Slots :
        \/ StartSubmit(p, Users, FileBytes, MaxJobs)
        \/ UploadStep(p)

SpecUpload == Init /\ [][NextUpload]_vars

\* access scenario: the owner uploads a statement; both users then commit the
\* job, and edit or discard its first row
RowOne(p) == req'[p].staging_id[2] = 1
TypeOnly(p) == req'[p].updates = ("transaction_type" :> "expense")

NextAccess ==
    \E p \in Slots :
        \/ StartSubmit(p, Owner, Statement, MaxReviewJobs)
        \/ StartCommit(p, Users, MaxReviewJobs)
        \/ StartUpdate(p, Users, MaxReviewJobs) /\ RowOne(p) /\ TypeOnly(p)
        \/ StartDiscard(p, Users, MaxReviewJobs) /\ RowOne(p)
        \/ Step(p)

SpecAccess == Init /\ [][NextAccess]_vars

\* edit scenario: the owner uploads a statement and update_staging_row is
\* called on its rows with any of the dictionaries
UpdateStep(p) ==
    \/ S_Lookup(p) \/ S_Create(p) \/ S_Processing(p) \/ S_Stage(p)
    \/ S_Review(p) \/ S_Except(p)
    \/ U_Get(p) \/ U_Save(p)
    \/ SessionCommit(p) \/ SessionRollback(p) \/ Recycle(p)

NextUpdate ==
    \E p \in Slots :
        \/ StartSubmit(p, Owner, Statement, MaxReviewJobs)
        \/ StartUpdateCall(p, Owner, MaxReviewJobs)
        \/ UpdateStep(p)

SpecUpdate == Init /\ [][NextUpdate]_vars

\* ---- process_pdf ------------------------------------------------------------
\* _PARSERS, in the order of the list
PARSERS_kbank_first == <<"kbank", "krusri", "bay", "cc", "scb_tran">>
PARSERS == <<"krusri", "bay", "cc", "scb_tran", "kbank">>

\* what subprocess.run(["pdftotext", ...]) can do: the executable is missing
\* (FileNotFoundError), runs out of time (TimeoutExpired), exits non-zero on a
\* document it cannot open, prints nothing, or prints the statement's text
PdftotextOutcomes == {"missing", "timeout", "failed", "no_text", "lines"}

\* the collaborators' behaviour for one document.  rows_of names the parsers
\* that find rows in the text; render is pdf_to_images, recognise is ocr_image.
Envs ==
    {e \in [pdftotext : PdftotextOutcomes,
            rows_of : SUBSET {PARSERS[i] : i \in 1..Len(PARSERS)},
            easyocr_available : BOOLEAN,
            pdf2image_available : BOOLEAN,
            render : {"raises", "images"},
            recognise : {"raises", "no_detections", "detections"}] :
        e.pdftotext # "lines" => e.rows_of = {}}

\* _extract_text_via_pdftotext: None when pdftotext is missing, times out or
\* exits non-zero, else the lines of its output
ExtractTextViaPdftotext(e) ==
    CASE e.pdftotext \in {"missing", "timeout", "failed"} -> None
      [] e.pdftotext = "no_text" -> Some(<<>>)
      [] OTHER -> Some(<<"line 1", "line 2">>)

\* `if text_lines:` - neither None nor an empty list
HasLines(text_lines) == text_lines # None /\ text_lines[1] # <<>>

\* parser(text_lines) for the parser named fmt
ParserRows(e, fmt) ==
    IF fmt \in e.rows_of THEN <<[parsed_by |-> fmt, sort_order |-> 0]>> ELSE <<>>

\* the rows the fallback loop builds: a detection with an amount gives a row
DetectionRows(e) ==
    IF e.recognise = "detections"
    THEN <<[parsed_by |-> "easyocr", sort_order |-> 0]>> ELSE <<>>

OcrResult(source, format, reason, rs) ==
    [raised |-> NULL, source |-> source, format |-> format, reason |-> reason,
     rows |-> rs]

\* line 910: extract the text
P_Extract ==
    /\ stage = "extract"
    /\ stage' = IF HasLines(ExtractTextViaPdftotext(env)) THEN "parse" ELSE "fallback"
    /\ UNCHANGED <<env, called, ocr_result>>
    /\ UNCHANGED <<workflowVars, parserVars, dateVars, methodVars, docVars>>

\* lines 912-919: call the next parser on the text; rows end the pipeline
P_Parse ==
    /\ stage = "parse"
    /\ LET fmt == PARSERS[Len(called) + 1]
           text_lines == ExtractTextViaPdftotext(env)[1]
           rs == ParserRows(env, fmt)
       IN  /\ called' = Append(called, <<fmt, text_lines>>)
           /\ IF rs # <<>>
              THEN /\ ocr_result' = OcrResult("pdftotext", fmt, NULL, rs)
                   /\ stage' = "returned"
              ELSE /\ stage' = IF Len(called) + 1 = Len(PARSERS)
                                THEN "fallback" ELSE "parse"
                   /\ UNCHANGED ocr_result
    /\ UNCHANGED env
    /\ UNCHANGED <<workflowVars, parserVars, dateVars, methodVars, docVars>>

\* lines 922-928: the fallback needs easyocr and pdf2image
P_Fallback ==
    /\ stage = "fallback"
    /\ IF ~env.easyocr_available \/ ~env.pdf2image_available
       THEN /\ ocr_result' = OcrResult("none",
                                  NULL, "scanned PDF and EasyOCR not installed", <<>>)
            /\ stage' = "returned"
       ELSE /\ stage' = "render"
            /\ UNCHANGED ocr_result
    /\ UNCHANGED <<env, called>>
    /\ UNCHANGED <<workflowVars, parserVars, dateVars, methodVars, docVars>>

\* lines 929-938: pdf_to_images inside try/except Exception
P_Render ==
    /\ stage = "render"
    /\ IF env.render = "raises"
       THEN /\ ocr_result' = OcrResult("none",
                                  NULL, "pdf2image could not parse this PDF", <<>>)
            /\ stage' = "returned"
       ELSE /\ stage' = "recognise"
            /\ UNCHANGED ocr_result
    /\ UNCHANGED <<env, called>>
    /\ UNCHANGED <<workflowVars, parserVars, dateVars, methodVars, docVars>>

\* lines 939-975: ocr_image on every page, outside any try block, then the
\* rows of the detections are returned
P_Recognise ==
    /\ stage = "recognise"
    /\ IF env.recognise = "raises"
       THEN /\ ocr_result' = [raised |-> "RuntimeError", source |-> NULL,
                               format |-> NULL, reason |-> NULL, rows |-> <<>>]
            /\ stage' = "raised"
       ELSE /\ ocr_result' = OcrResult("easyocr", NULL, NULL, DetectionRows(env))
            /\ stage' = "returned"
    /\ UNCHANGED <<env, called>>
    /\ UNCHANGED <<workflowVars, parserVars, dateVars, methodVars, docVars>>

InitPipeline ==
    /\ WorkflowInit /\ ParserIdle /\ DateIdle /\ MethodIdle /\ DocIdle
    /\ env \in Envs
    /\ stage = "extract"
    /\ called = <<>>
    /\ ocr_result = NULL

NextPipeline == P_Extract \/ P_Parse \/ P_Fallback \/ P_Render \/ P_Recognise

SpecPipeline == InitPipeline /\ [][NextPipeline]_vars

\* ---- the parsers' loop bodies ------------------------------------------------
\* A statement line (or an OCR detection) as the parsers' patterns see it:
\* the amount text is `sign` followed by digits worth `magnitude`; `code` is
\* the X1/X2 column of an SCB line; every other field tells whether the
\* regular expression of that name finds a match in the description.
Formats == {"krusri", "bay", "cc", "scb_tran", "kbank", "easyocr"}
Magnitudes == {0, 5}
Lines ==
    [parser : Formats, sign : {"", "-"}, magnitude : Magnitudes,
     code : {"X1", "X2"},
     income_kw : BOOLEAN,        \* _KBANK_INCOME_RE, _BAY_INCOME_RE, _POSITIVE_INDICATORS
     expense_kw : BOOLEAN,       \* _KBANK_EXPENSE_RE, _BAY_EXPENSE_RE, _NEGATIVE_INDICATORS
     transfer_in_kw : BOOLEAN,   \* _TRANSFER_IN_KW_RE, _BAY_TRANSFER_IN_RE
     transfer_out_kw : BOOLEAN,  \* _TRANSFER_OUT_KW_RE, _BAY_TRANSFER_OUT_RE
     bank_code : BOOLEAN,        \* _THAI_BANK_CODE_RE, _BAY_BANK_CODE_RE
     card_payment : BOOLEAN,     \* _CREDIT_CARD_PAYMENT_RE
     investment : BOOLEAN,       \* _INVESTMENT_TRANSFER_RE
     payment_received : BOOLEAN] \* _CC_PAYMENT_RECEIVED_RE

\* the Decimal a parser builds from the amount text.  krusri's pattern takes
\* the minus sign into the text; the cc parser strips it; the patterns of the
\* other parsers ([\d,]+\.\d{2}) cannot match a sign.
AmountOf(l) ==
    IF l.parser = "krusri" /\ l.sign = "-" THEN 0 - l.magnitude ELSE l.magnitude

\* the type a parser gives the line before its overrides, or "skip" when the
\* loop continues without a row
BaseType(l) ==
    CASE l.parser = "krusri" ->
            IF AmountOf(l) <= 0 THEN "skip" ELSE "expense"
      [] l.parser = "cc" ->
            IF l.sign = "-" THEN "income" ELSE "expense"
      [] l.parser = "scb_tran" ->
            IF l.code = "X1" THEN "income" ELSE "expense"
      [] l.parser = "kbank" ->
            IF l.income_kw THEN "income"
            ELSE IF l.expense_kw THEN "expense" ELSE "skip"
      [] l.parser = "bay" ->
            IF l.income_kw THEN "income"
            ELSE IF l.transfer_in_kw
                 THEN (IF l.bank_code THEN "transfer" ELSE "income")
            ELSE IF l.transfer_out_kw THEN "transfer"
            ELSE IF l.expense_kw THEN "expense" ELSE "skip"
      [] OTHER ->   \* easyocr: _infer_transaction_type
            IF l.expense_kw THEN "expense"
            ELSE IF l.income_kw THEN "income" ELSE NULL

\* the guard of the card-bill and investment overrides
IsNotTransfer(t) == t # "transfer"
IsExpense(t) == t = "expense"

\* the first statement after the base type, per parser
AfterBase(l) ==
    CASE l.parser \in {"scb_tran", "kbank", "bay"} -> "card_payment"
      [] l.parser = "cc" -> "payment_received"
      [] OTHER -> "append"

ParserStep(next) ==
    /\ rule' = next
    /\ UNCHANGED <<line, emitted>>
    /\ UNCHANGED <<workflowVars, pipelineVars, dateVars, methodVars, docVars>>

\* match the line, parse the amount, take the base type
L_Base ==
    /\ rule = "base"
    /\ tx_type' = BaseType(line)
    /\ ParserStep(IF BaseType(line) = "skip" THEN "skipped" ELSE AfterBase(line))

\* cc parser: a negative row that is a payment received is a transfer
L_PaymentReceived ==
    /\ rule = "payment_received"
    /\ tx_type' = IF tx_type = "income" /\ line.payment_received
                   THEN "transfer" ELSE tx_type
    /\ ParserStep("append")

\* override (1): credit card bill payment
L_CardPayment ==
    /\ rule = "card_payment"
    /\ tx_type' = IF IsExpense(tx_type) /\ line.card_payment
                   THEN "transfer" ELSE tx_type
    /\ ParserStep("investment")

\* override (2): investment account top-up
L_Investment ==
    /\ rule = "investment"
    /\ tx_type' = IF IsExpense(tx_type) /\ line.investment
                   THEN "transfer" ELSE tx_type
    /\ ParserStep(IF line.parser = "bay" THEN "append" ELSE "bank_transfer")

\* override (3), scb_tran and kbank: bank code with a direction keyword
L_BankTransfer ==
    /\ rule = "bank_transfer"
    /\ tx_type' =
          IF tx_type # "transfer" /\ line.bank_code
          THEN IF tx_type = "expense" /\ line.transfer_out_kw THEN "transfer"
               ELSE IF tx_type = "income" /\ line.transfer_in_kw THEN "transfer"
               ELSE tx_type
          ELSE tx_type
    /\ ParserStep("append")

\* rows.append(ExtractedRow(...))
L_Append ==
    /\ rule = "append"
    /\ emitted' = [parsed_by |-> line.parser, amount |-> AmountOf(line),
                    transaction_type |-> tx_type]
    /\ rule' = "appended"
    /\ UNCHANGED <<line, tx_type>>
    /\ UNCHANGED <<workflowVars, pipelineVars, dateVars, methodVars, docVars>>

InitParsers ==
    /\ WorkflowInit /\ PipelineIdle /\ DateIdle /\ MethodIdle /\ DocIdle
    /\ line \in Lines
    /\ tx_type = NULL
    /\ rule = "base"
    /\ emitted = NULL

NextParsers ==
    \/ L_Base \/ L_PaymentReceived \/ L_CardPayment \/ L_Investment
    \/ L_BankTransfer \/ L_Append

SpecParsers == InitParsers /\ [][NextParsers]_vars

\* ---- _parse_date ------------------------------------------------------------
\* Strings are sequences of one-character strings.
DigitChars == <<"0", "1", "2", "3", "4", "5", "6", "7", "8", "9">>
IsDigit(c) == \E n \in 1..10 : DigitChars[n] = c
DigitValue(c) == (CHOOSE n \in 1..10 : DigitChars[n] = c) - 1

\* int(s) for a string of digits
RECURSIVE ToInt(_)
ToInt(ds) ==
    IF ds = <<>> THEN 0
    ELSE 10 * ToInt(SubSeq(ds, 1, Len(ds) - 1)) + DigitValue(ds[Len(ds)])

\* 10 ** k
RECURSIVE Pow10(_)
Pow10(k) == IF k = 0 THEN 1 ELSE 10 * Pow10(k - 1)

\* "%0kd" % n
Zfill(n, k) == [i \in 1..k |-> DigitChars[((n \div Pow10(k - i)) % 10) + 1]]

\* str(n) for 0 <= n <= 99
Str(n) == IF n < 10 THEN Zfill(n, 1) ELSE Zfill(n, 2)

\* datetime.date(year, month, day): the proleptic Gregorian calendar
IsLeap(y) == (y % 4 = 0 /\ y % 100 # 0) \/ y % 400 = 0
DaysInMonth(y, m) ==
    IF m = 2 THEN (IF IsLeap(y) THEN 29 ELSE 28)
    ELSE IF m \in {4, 6, 9, 11} THEN 30 ELSE 31
ValidDate(y, m, d) ==
    /\ 1 <= y /\ y <= 9999
    /\ 1 <= m /\ m <= 12
    /\ 1 <= d /\ d <= DaysInMonth(y, m)

\* date.isoformat()
IsoFormat(y, m, d) == Zfill(y, 4) \o <<"-">> \o Zfill(m, 2) \o <<"-">> \o Zfill(d, 2)

\* \b at the gap before position i of t
WordBoundary(t, i) ==
    LET before == i > 1 /\ IsDigit(t[i - 1])
        after == i <= Len(t) /\ IsDigit(t[i])
    IN  before # after

AllDigits(t, from, n) ==
    /\ from + n - 1 <= Len(t)
    /\ \A k \in from..(from + n - 1) : IsDigit(t[k])

CharIn(t, i, cs) == i <= Len(t) /\ t[i] \in cs

\* the ways a pattern of three digit groups with separators matches t: start
\* position i and group lengths a, b, c, between word boundaries
GroupMatches(t, as, bs, cs, seps) ==
    {mt \in (1..Len(t)) \X as \X bs \X cs :
        LET i == mt[1]  a == mt[2]  b == mt[3]  c == mt[4]
        IN  /\ WordBoundary(t, i)
            /\ AllDigits(t, i, a)
            /\ CharIn(t, i + a, seps)
            /\ AllDigits(t, i + a + 1, b)
            /\ CharIn(t, i + a + 1 + b, seps)
            /\ AllDigits(t, i + a + b + 2, c)
            /\ WordBoundary(t, i + a + b + 2 + c)}

\* pattern.search(t): the leftmost match, greedy groups first
Search(t, as, bs, cs, seps) ==
    LET ms == GroupMatches(t, as, bs, cs, seps)
        Key(mt) == ((mt[1] * 10 + (9 - mt[2])) * 10 + (9 - mt[3])) * 10 + (9 - mt[4])
    IN  IF ms = {} THEN <<>>
        ELSE LET mt == CHOOSE x \in ms : \A y \in ms : Key(x) <= Key(y)
                 i == mt[1]  a == mt[2]  b == mt[3]  c == mt[4]
             IN  << SubSeq(t, i, i + a - 1),
                    SubSeq(t, i + a + 1, i + a + b),
                    SubSeq(t, i + a + b + 2, i + a + b + 1 + c) >>

\* _DATE_PATTERNS[0]: \b(\d{1,2})[/\-](\d{1,2})[/\-](\d{2,4})\b
SearchDayFirst(t) == Search(t, {1, 2}, {1, 2}, {2, 3, 4}, {"/", "-"})
\* _DATE_PATTERNS[1]: \b(\d{4})-(\d{2})-(\d{2})\b
SearchYearFirst(t) == Search(t, {4}, {2}, {2}, {"-"})

\* line 229: the century put before a two-digit year
CenturyPrefixAlways20(y) == <<"2", "0">>
CenturyPrefix(y) == IF ToInt(y) <= 30 THEN <<"2", "0">> ELSE <<"2", "5">>

\* lines 226-235 for the groups of one match: d, mo, y = groups whichever
\* pattern matched; <<>> stands for the ValueError of date()
FromGroups(groups) ==
    LET d == groups[1]
        mo == groups[2]
        y == IF Len(groups[3]) = 2 THEN CenturyPrefix(groups[3]) \o groups[3]
             ELSE groups[3]
        year_int == IF ToInt(y) > 2500 THEN ToInt(y) - 543 ELSE ToInt(y)
    IN  IF ValidDate(year_int, ToInt(mo), ToInt(d))
        THEN <<IsoFormat(year_int, ToInt(mo), ToInt(d)), 85>>
        ELSE <<>>

\* _parse_date(text): (ISO string | None, confidence in hundredths)
ParseDate(t) ==
    LET first == SearchDayFirst(t)
        second == SearchYearFirst(t)
    IN  IF first # <<>> /\ FromGroups(first) # <<>> THEN FromGroups(first)
        ELSE IF second # <<>> /\ FromGroups(second) # <<>> THEN FromGroups(second)
        ELSE <<None, 0>>

\* the dates the model writes down
DaySamples == {1, 9, 15, 28, 29, 30, 31}
MonthSamples == {1, 2, 4, 12}
TwoDigitYears == {Zfill(y, 2) : y \in 0..99}
FourDigitYears == {Zfill(y, 4) : y \in {0, 1, 12, 1999, 2024, 2026, 2500, 2501, 2568, 9999}}
WrittenDates ==
    [shape : {"dmy"}, day : DaySamples, month : MonthSamples,
     year : TwoDigitYears \cup FourDigitYears, padded : BOOLEAN, sep : {"/", "-"}]
    \cup
    [shape : {"iso"}, day : DaySamples, month : MonthSamples,
     year : FourDigitYears, padded : {TRUE}, sep : {"-"}]

\* the text of a written date: D/M/Y with or without leading zeros, or
\* YYYY-MM-DD
Render(w) ==
    LET dd == IF w.padded THEN Zfill(w.day, 2) ELSE Str(w.day)
        mm == IF w.padded THEN Zfill(w.month, 2) ELSE Str(w.month)
    IN  IF w.shape = "dmy"
        THEN dd \o <<w.sep>> \o mm \o <<w.sep>> \o w.year
        ELSE w.year \o <<"-">> \o Zfill(w.month, 2) \o <<"-">> \o Zfill(w.day, 2)

InitDates ==
    /\ WorkflowInit /\ PipelineIdle /\ ParserIdle /\ MethodIdle /\ DocIdle
    /\ written \in WrittenDates
    /\ text = Render(written)
    /\ parsed = <<>>

D_Parse ==
    /\ parsed = <<>>
    /\ parsed' = ParseDate(text)
    /\ UNCHANGED <<written, text>>
    /\ UNCHANGED <<workflowVars, pipelineVars, parserVars, methodVars, docVars>>

NextDates == D_Parse

SpecDates == InitDates /\ [][NextDates]_vars

\* ---- _detect_payment_method -------------------------------------------------
\* A text is a sequence of words; a pattern is the set of the words its
\* alternatives are found in, so pattern.search(text) is "some word of the
\* text is in the set".
MaxWords == 2

Words == {"promptpay", "qr code", "line pay", "grab.com", "truemoney", "shopee",
          "lazada", "netflix", "amzn.com", "steamgames", "agoda", "omise *",
          "atm", "k plus", "payment received", "https://", "usd 5", "coffee"}

PAYMENT_METHOD_PATTERNS == <<
    [pattern |-> {"promptpay"},                  method |-> "promptpay"],
    [pattern |-> {"qr code"},                    method |-> "qr_code"],
    [pattern |-> {"line pay"},                   method |-> "digital_wallet"],
    [pattern |-> {"grab.com"},                   method |-> "digital_wallet"],
    [pattern |-> {"truemoney"},                  method |-> "digital_wallet"],
    [pattern |-> {"shopee"},                     method |-> "digital_wallet"],
    [pattern |-> {"lazada"},                     method |-> "digital_wallet"],
    [pattern |-> {"netflix"},                    method |-> "subscription"],
    [pattern |-> {"amzn.com"},                   method |-> "online"],
    [pattern |-> {"steamgames"},                 method |-> "online"],
    [pattern |-> {"agoda"},                      method |-> "online"],
    [pattern |-> {"omise *"},                    method |-> "online"],
    [pattern |-> {"atm"},                        method |-> "atm"],
    [pattern |-> {"k plus", "payment received"}, method |-> "bank_transfer"],
    [pattern |-> {"usd 5", "grab.com", "amzn.com", "https://"},
                                                 method |-> "online"] >>

\* pattern.search(text)
PatternSearch(pattern, t) == \E k \in 1..Len(t) : t[k] \in pattern

\* for pattern, method in _PAYMENT_METHOD_PATTERNS: the entry visited i-th
ScanOrderBottomUp(i) == Len(PAYMENT_METHOD_PATTERNS) + 1 - i
ScanOrder(i) == i

Texts == UNION {[1..n -> Words] : n \in 0..MaxWords}

\* an iteration whose pattern is found: return method
M_Match ==
    /\ detected = <<>>
    /\ scanned < Len(PAYMENT_METHOD_PATTERNS)
    /\ PatternSearch(PAYMENT_METHOD_PATTERNS[ScanOrder(scanned + 1)].pattern,
                     description)
    /\ detected' = <<PAYMENT_METHOD_PATTERNS[ScanOrder(scanned + 1)].method>>
    /\ scanned' = scanned + 1
    /\ UNCHANGED description
    /\ UNCHANGED <<workflowVars, pipelineVars, parserVars, dateVars, docVars>>

\* an iteration whose pattern is not found: on to the next entry
M_NoMatch ==
    /\ detected = <<>>
    /\ scanned < Len(PAYMENT_METHOD_PATTERNS)
    /\ ~PatternSearch(PAYMENT_METHOD_PATTERNS[ScanOrder(scanned + 1)].pattern,
                      description)
    /\ scanned' = scanned + 1
    /\ UNCHANGED <<description, detected>>
    /\ UNCHANGED <<workflowVars, pipelineVars, parserVars, dateVars, docVars>>

\* the table is exhausted: return None
M_None ==
    /\ detected = <<>>
    /\ scanned = Len(PAYMENT_METHOD_PATTERNS)
    /\ detected' = <<NULL>>
    /\ UNCHANGED <<description, scanned>>
    /\ UNCHANGED <<workflowVars, pipelineVars, parserVars, dateVars, docVars>>

InitMethods ==
    /\ WorkflowInit /\ PipelineIdle /\ ParserIdle /\ DateIdle /\ DocIdle
    /\ description \in Texts
    /\ scanned = 0
    /\ detected = <<>>

NextMethods == M_Match \/ M_NoMatch \/ M_None

SpecMethods == InitMethods /\ [][NextMethods]_vars


\* ---- the parsers' loops over a statement ------------------------------------
\* A line is what the parsers' patterns see in it: `matches` names the line
\* grammar it matches, `description` and `memo` are the words of its
\* description and channel/memo columns, `amounts` counts its amount fields and
\* `amount` is the first of them.  Thai keywords are written by their gloss.
MaxLines == 4

Ln(matches, date, words, memo, amounts, amount) ==
    [matches |-> matches, date |-> date, description |-> words, memo |-> memo,
     amounts |-> amounts, amount |-> amount, ignore |-> FALSE, header |-> NULL]

BlankLine == Ln("blank", NULL, <<>>, <<>>, 0, 0)
TextLine == Ln("none", NULL, <<"shop">>, <<>>, 0, 0)

\* _KRUSRI_HEADER_RE / _BAY_HEADER_RE match the issuer's name; the BAY names
\* are on _BAY_IGNORE_LINE_RE as well
IssuerLine(f) ==
    [Ln("none", NULL, <<"issuer">>, <<>>, 0, 0)
        EXCEPT !.header = f, !.ignore = (f = "bay")]
TitleLine == Ln("none", NULL, <<"statement">>, <<>>, 0, 0)

KRUSRI_SKIP == {"thank you for payment", "SUBTOTAL", "total", "remaining per month"}
KBANK_SKIP == {"balance brought forward", "balance carried forward", "Balance Brought"}
KBANK_INCOME == {"received transfer", "deposit", "received money", "interest"}
KBANK_EXPENSE == {"payment", "transfer", "withdrawal", "deduction", "paid"}
BAY_INTERNAL == {"pocket deposit", "auto save"}
BAY_INCOME == {"interest received"}
BAY_EXPENSE == {"paid with", "settle"}
BAY_BANK_CODE == {"SCB", "KBANK", "BBL", "KTB"}

\* the lines a statement of each format is drawn from
StatementLines(f) ==
    CASE f = "cc" ->
            {BlankLine, TextLine,
             Ln("ktc", "26/01/26", <<"COFFEE">>, <<>>, 1, 100),
             Ln("scb", "11/01", <<"TEA">>, <<>>, 1, 411),
             Ln("ktc", "31/02/26", <<"FLOWERS">>, <<>>, 1, 50)}
      [] f = "krusri" ->
            {BlankLine, TextLine,
             Ln("krusri", "15/02/26", <<"FEE">>, <<>>, 1, 26),
             Ln("krusri", "15/02/26", <<"SUBTOTAL">>, <<>>, 1, 5026),
             Ln("krusri", "15/02/26", <<"REFUND">>, <<>>, 1, -26),
             Ln("krusri", "31/02/26", <<"FEE">>, <<>>, 1, 27)}
      [] f = "scb_tran" ->
            {BlankLine, TextLine,
             Ln("scb_tran", "01/02/26", <<"bill">>, <<>>, 2, 65),
             Ln("scb_tran", "01/02/26", <<"nothing">>, <<>>, 0, 0),
             Ln("scb_tran", "31/02/26", <<"salary">>, <<>>, 2, 66)}
      [] f = "kbank" ->
            {BlankLine, TextLine,
             Ln("kbank", "03-01-26", <<"payment">>, <<"shop">>, 2, 50),
             Ln("kbank", "01-01-26", <<"balance brought forward">>, <<>>, 2, 5000),
             Ln("kbank", "04-01-26", <<"payment">>, <<"Balance Brought">>, 2, 51),
             Ln("kbank", "05-01-26", <<"other">>, <<>>, 2, 52),
             Ln("kbank", "31-02-26", <<"payment">>, <<"shop">>, 2, 53)}
      [] f = "bay" ->
            {BlankLine, TextLine,
             [Ln("none", NULL, <<"Page 1/ 2">>, <<>>, 0, 0) EXCEPT !.ignore = TRUE],
             Ln("none", NULL, <<"auto save">>, <<>>, 0, 0),
             Ln("numeric", NULL, <<"1,000.00">>, <<>>, 1, 1000),
             Ln("bay_date", "01/01/2569", <<"paid with", "QR">>, <<>>, 2, 100),
             Ln("bay_date", "02/01/2569", <<"pocket deposit">>, <<>>, 2, 10),
             Ln("bay_date", "03/01/2569", <<"misc">>, <<>>, 2, 20),
             Ln("bay_date", "04/01/2569", <<"settle">>, <<>>, 1, 830),
             Ln("bay_date", "31/02/2569", <<"settle", "bill">>, <<>>, 2, 50),
             [Ln("bay_date", "05/01/2569", <<"settle", "Deposit">>, <<>>, 2, 30)
                 EXCEPT !.ignore = TRUE]}
      [] OTHER ->
            \* easyocr: the detections of the pages, with and without an amount
            {Ln("detection", NULL, <<"paid 5.00">>, <<>>, 1, 5),
             Ln("detection", NULL, <<"hello">>, <<>>, 0, 0)}

\* the first line of a statement: the issuer's header or another title
Headings(f) ==
    IF f \in {"krusri", "bay"} THEN {IssuerLine(f), TitleLine} ELSE {TitleLine}

Bodies(f) == UNION {[1..n -> StatementLines(f)] : n \in 0..MaxLines}

Documents(f) ==
    IF f = "easyocr" THEN Bodies(f)
    ELSE {<<h>> \o b : h \in Headings(f), b \in Bodies(f)}

\* _parse_date on the line's date: None for a day the month does not have
ParsedDate(date) ==
    IF date \in {"31/02/26", "31-02-26", "31/02/2569"} \/ date = NULL
    THEN NULL ELSE "parsed"

\* a parser's locals
Locals(p, rs, n) == [pending |-> p, rows |-> rs, sort_order |-> n]

\* rows.append(ExtractedRow(..., sort_order=sort_order)); sort_order += 1
AppendRow(st, l, date, words) ==
    [st EXCEPT !.rows = Append(@, [raw_text |-> l,
                                   transaction_date |-> ParsedDate(date),
                                   description |-> words,
                                   amount |-> l.amount,
                                   sort_order |-> st.sort_order]),
               !.sort_order = @ + 1]

\* `continue` (or flush's `return`) on a line or record a skip rule rejects
AfterSkipCountsLine(st) == [st EXCEPT !.sort_order = @ + 1]
AfterSkip(st) == st

\* _parse_pdftotext_lines, one iteration (Decimal() of the matched amount
\* cannot raise: the pattern admits digits, commas and a decimal point only)
CcStep(st, l) ==
    IF l.matches = "blank" THEN st
    ELSE IF l.matches \notin {"ktc", "scb"} THEN st
    ELSE AppendRow(st, l, l.date, l.description)

\* _parse_krusri_lines, one iteration
KrusriStep(st, l) ==
    IF l.matches = "blank" THEN st
    ELSE IF l.matches # "krusri" THEN st
    ELSE IF PatternSearch(KRUSRI_SKIP, l.description) THEN AfterSkip(st)
    ELSE IF l.amount <= 0 THEN AfterSkip(st)
    ELSE AppendRow(st, l, l.date, l.description)

\* _parse_scb_tran_lines, one iteration
ScbTranStep(st, l) ==
    IF l.matches = "blank" THEN st
    ELSE IF l.matches # "scb_tran" THEN st
    ELSE IF l.amounts = 0 THEN AfterSkip(st)
    ELSE AppendRow(st, l, l.date, l.description)

\* _parse_kbank_lines, one iteration: the skip rule reads the description
\* column, the type and the row's description the column plus the memo
KbankStep(st, l) ==
    LET full_description == l.description \o l.memo
    IN  IF l.matches = "blank" THEN st
        ELSE IF l.matches # "kbank" THEN st
        ELSE IF PatternSearch(KBANK_SKIP, l.description) THEN AfterSkip(st)
        ELSE IF ~ PatternSearch(KBANK_INCOME, full_description)
                /\ ~ PatternSearch(KBANK_EXPENSE, full_description)
        THEN AfterSkip(st)
        ELSE AppendRow(st, l, l.date, full_description)

\* process_pdf's loop over the detections, one iteration
DetectionStep(st, l) ==
    IF l.amounts = 0 THEN st
    ELSE AppendRow(st, l, l.date, l.description)


\* the type _parse_bay_lines.flush reads off the description, None if unknown
BayType(words) ==
    IF PatternSearch(BAY_INCOME, words) THEN "income"
    ELSE IF words # <<>> /\ words[1] = "money in from"
    THEN IF PatternSearch(BAY_BANK_CODE, words) THEN "transfer" ELSE "income"
    ELSE IF words # <<>> /\ words[1] = "money out to" THEN "transfer"
    ELSE IF PatternSearch(BAY_EXPENSE, words) THEN "expense"
    ELSE NULL

\* _BAY_FROM_POCKET_RE: "money in from <name> savings" at the start
FromPocket(words) ==
    Len(words) >= 3 /\ words[1] = "money in from" /\ words[3] = "savings"

\* _parse_bay_lines.flush: finalise the pending record, if any, into a row
Flush(st) ==
    IF st.pending = <<>> THEN st
    ELSE LET entry == st.pending[1]
             cleared == [st EXCEPT !.pending = <<>>]
             words == entry.first_line.description \o entry.extra
         IN  IF entry.first_line.amounts < 2 THEN cleared
             ELSE IF PatternSearch(BAY_INTERNAL, words) THEN AfterSkip(cleared)
             ELSE IF FromPocket(words) THEN AfterSkip(cleared)
             ELSE IF BayType(words) = NULL THEN AfterSkip(cleared)
             ELSE AppendRow(cleared, entry.first_line, entry.date_str, words)

\* a dated line: flush(), then pending = {date_str, first_line, extra: []}
OpenRecordWithoutFlush(st, l) ==
    [st EXCEPT !.pending = << [date_str |-> l.date, first_line |-> l,
                               extra |-> <<>>] >>]
OpenRecord(st, l) ==
    [Flush(st) EXCEPT !.pending = << [date_str |-> l.date, first_line |-> l,
                                      extra |-> <<>>] >>]

\* a line on _BAY_IGNORE_LINE_RE: continue
FlushOnIgnoredLine(st) == Flush(st)
DropIgnoredLine(st) == st

\* _parse_bay_lines, one iteration of the loop over the lines
BayStep(st, l) ==
    IF l.matches = "blank" THEN st
    ELSE IF l.ignore THEN DropIgnoredLine(st)
    ELSE IF l.matches = "bay_date" THEN OpenRecord(st, l)
    ELSE IF st.pending # <<>>
    THEN IF l.matches \in {"numeric", "date_range"} THEN st
         ELSE [st EXCEPT !.pending[1].extra = @ \o l.description]
    ELSE st

\* the header check of _parse_krusri_lines (first 30 lines) and
\* _parse_bay_lines (first 40 lines)
HeaderLines(f) == IF f = "krusri" THEN 30 ELSE 40
HasHeader(f, ls) ==
    \E i \in 1..Len(ls) : i <= HeaderLines(f) /\ ls[i].header = f

T_Header ==
    /\ doc_pc = "header"
    /\ doc_pc' = IF HasHeader(parser, lines) THEN "loop" ELSE "returned"
    /\ UNCHANGED <<parser, lines, pos, pending, doc_rows, sort_order>>
    /\ UNCHANGED <<workflowVars, pipelineVars, parserVars, dateVars, methodVars>>

\* one iteration of parser f's loop
Iterate(f, step(_, _)) ==
    /\ parser = f
    /\ doc_pc = "loop"
    /\ pos <= Len(lines)
    /\ LET st == step(Locals(pending, doc_rows, sort_order), lines[pos])
       IN  /\ pending' = st.pending
           /\ doc_rows' = st.rows
           /\ sort_order' = st.sort_order
    /\ pos' = pos + 1
    /\ UNCHANGED <<parser, lines, doc_pc>>
    /\ UNCHANGED <<workflowVars, pipelineVars, parserVars, dateVars, methodVars>>

CC_Line == Iterate("cc", CcStep)
KRUSRI_Line == Iterate("krusri", KrusriStep)
SCB_Line == Iterate("scb_tran", ScbTranStep)
KBANK_Line == Iterate("kbank", KbankStep)
BAY_Line == Iterate("bay", BayStep)
OCR_Detection == Iterate("easyocr", DetectionStep)

\* _parse_bay_lines after the loop: flush(); return rows
BAY_Return ==
    /\ parser = "bay"
    /\ doc_pc = "loop"
    /\ pos > Len(lines)
    /\ LET st == Flush(Locals(pending, doc_rows, sort_order))
       IN  /\ pending' = st.pending
           /\ doc_rows' = st.rows
           /\ sort_order' = st.sort_order
    /\ doc_pc' = "returned"
    /\ UNCHANGED <<parser, lines, pos>>
    /\ UNCHANGED <<workflowVars, pipelineVars, parserVars, dateVars, methodVars>>

\* the other parsers after the loop: return rows
T_Return ==
    /\ parser # "bay"
    /\ doc_pc = "loop"
    /\ pos > Len(lines)
    /\ doc_pc' = "returned"
    /\ UNCHANGED <<parser, lines, pos, pending, doc_rows, sort_order>>
    /\ UNCHANGED <<workflowVars, pipelineVars, parserVars, dateVars, methodVars>>

InitDocs ==
    /\ WorkflowInit /\ PipelineIdle /\ ParserIdle /\ DateIdle /\ MethodIdle
    /\ parser \in Formats
    /\ lines \in Documents(parser)
    /\ doc_pc = IF parser \in {"krusri", "bay"} THEN "header" ELSE "loop"
    /\ pos = 1
    /\ pending = <<>>
    /\ doc_rows = <<>>
    /\ sort_order = 0

NextDocs ==
    \/ T_Header \/ CC_Line \/ KRUSRI_Line \/ SCB_Line \/ KBANK_Line
    \/ BAY_Line \/ OCR_Detection \/ BAY_Return \/ T_Return

SpecDocs == InitDocs /\ [][NextDocs]_vars


\* ==== properties ===========================================================
Commits == {p \in Slots : req[p].kind = "commit"}
Submits == {p \in Slots : req[p].kind = "submit"}

\* the ledger transactions request rid created, durable or still in a session
TxsOf(rid) ==
    {tx \in dbLedger \cup UNION {sess[q].ledger : q \in Slots} : tx.id[1] = rid}

\* a row lacking amount or transaction type
Missing(r) == r.amount_thb = None \/ r.transaction_type = NULL

\* ---- C1 -------------------------------------------------------------------
StatusEdges == { <<"pending", "processing">>, <<"processing", "review">>,
                 <<"review", "committed">>, <<"processing", "failed">> }

\* C1: an OcrJob's status only changes along pending->processing,
\* processing->review, review->committed and processing->failed, both on the
\* entity a handler holds and on the stored job; so committed and failed are
\* terminal and failed is entered from processing only.
C1_StatusFollowsLifecycle ==
    [][ /\ \A p \in Slots :
            (job[p].id # 0 /\ job'[p].id = job[p].id
                /\ job'[p].status # job[p].status)
            => <<job[p].status, job'[p].status>> \in StatusEdges
        /\ \A j \in DOMAIN dbJobs \cap DOMAIN dbJobs' :
            dbJobs'[j].status # dbJobs[j].status
            => <<dbJobs[j].status, dbJobs'[j].status>> \in StatusEdges ]_vars

\* ---- C2 -------------------------------------------------------------------
\* C2: a commit_staging call goes past its status check only when the job it
\* loaded is in review; a call that loaded a job in any other status raises
\* JobNotReadyError, and a call that raised JobNotReadyError has listed no
\* rows, written nothing in its session and created no ledger transaction.
C2_NotInReviewIsRejected ==
    \A p \in Commits :
        /\ pc[p] \in {"c_list", "c_row", "c_confirm"} => job[p].status = "review"
        /\ (job[p] # NoJob /\ idx[p] = 0 /\ pc[p] \notin {"c_get", "c_list"})
            => result[p].error = "JobNotReadyError"
        /\ result[p].error = "JobNotReadyError"
            => /\ job[p].status # "review"
               /\ sess[p] = EmptySession
               /\ rows[p] = <<>>
               /\ committed[p] = <<>>
               /\ TxsOf(req[p].rid) = {}

\* a second commit of an already committed job has been rejected
C2_Witness ==
    \E p \in Commits :
        /\ pc[p] = "done"
        /\ result[p].error = "JobNotReadyError"
        /\ job[p].status = "committed"
        /\ dbLedger # {}

C4_CommittedJobLeavesNoCommittableRow ==
    \A j \in DOMAIN dbJobs :
        dbJobs[j].status = "committed"
        => \A s \in DOMAIN dbRows :
              (/\ dbRows[s].ocr_job_id = j
               /\ dbRows[s].review_status # "discarded"
               /\ ~Missing(dbRows[s]))
              => \E tx \in dbLedger : tx.ocr_staging_id = s

\* ---- C5 -------------------------------------------------------------------
\* C5: a row that is discarded in the list a commit_staging call reads gets
\* no ledger transaction from that call, is not saved (so not confirmed) by
\* it and is not in its `committed` list, whose length is the returned count.
C5_DiscardedRowsAreLeftOut ==
    \A p \in Commits :
        /\ \A i \in 1..Len(rows[p]) :
              rows[p][i].review_status = "discarded"
              => /\ rows[p][i].id \notin DOMAIN sess[p].rows
                 /\ \A tx \in TxsOf(req[p].rid) : tx.ocr_staging_id # rows[p][i].id
                 /\ \A k \in 1..Len(committed[p]) : committed[p][k][2] # rows[p][i].id
        /\ result[p].outcome = "returned" => result[p].value = Len(committed[p])

\* a commit returned a positive count for a job with a discarded row
C5_Witness ==
    \E p \in Commits :
        /\ pc[p] = "done"
        /\ result[p].outcome = "returned"
        /\ result[p].value >= 1
        /\ \E i \in 1..Len(rows[p]) : rows[p][i].review_status = "discarded"

\* ---- C6 -------------------------------------------------------------------
\* C6: a stored row that is discarded stays discarded and gets no ledger
\* transaction from then on.
C6_DiscardIsPermanent ==
    [][ \A s \in DOMAIN dbRows :
            dbRows[s].review_status = "discarded"
            => /\ dbRows'[s].review_status = "discarded"
               /\ {tx \in dbLedger' : tx.ocr_staging_id = s}
                    = {tx \in dbLedger : tx.ocr_staging_id = s} ]_vars

\* ---- C7 -------------------------------------------------------------------
\* C7: once the stored job is committed, none of its stored rows changes.
C7_RowsFrozenAfterCommit ==
    [][ \A s \in DOMAIN dbRows :
            dbJobs[dbRows[s].ocr_job_id].status = "committed"
            => dbRows'[s] = dbRows[s] ]_vars

C9_CommitIsAllOrNothing ==
    [][ /\ \A p \in Commits :
            result[p].outcome # "returned"
            => \A tx \in dbLedger : tx.id[1] # req[p].rid
        /\ dbVars' # dbVars
            => \E p \in Slots : pc[p] = "returned" /\ pc'[p] = "done"
        /\ \A p \in Slots :
            (pc[p] = "raised" /\ pc'[p] = "done") => dbVars' = dbVars
        /\ \A p \in Commits :
            (pc[p] = "returned" /\ pc'[p] = "done")
            => /\ dbJobs'[req[p].job_id].status = "committed"
               /\ \A i \in 1..Len(rows[p]) :
                    (rows[p][i].review_status # "discarded" /\ ~Missing(rows[p][i]))
                    => /\ dbRows'[rows[p][i].id].review_status = "confirmed"
                       /\ \E tx \in dbLedger' :
                            tx.id = <<req[p].rid, rows[p][i].id>> ]_vars

\* create_transaction raised after an earlier row's ledger transaction had been
\* created: afterwards none of the call's transactions is stored, no row is
\* confirmed and the job is in review
C9_Witness ==
    \E p \in Commits :
        /\ pc[p] = "done"
        /\ result[p].error \in {"ValueError", "FinanceError"}
        /\ Len(committed[p]) >= 1
        /\ TxsOf(req[p].rid) = {}
        /\ dbJobs[req[p].job_id].status = "review"
        /\ \A s \in DOMAIN dbRows : dbRows[s].review_status # "confirmed"

\* ---- C10 ------------------------------------------------------------------
\* the stored jobs of slot p's user with the hash of slot p's bytes
OwnedDuplicates(p) ==
    {j \in DOMAIN dbJobs : /\ dbJobs[j].user_id = req[p].user_id
                           /\ dbJobs[j].file_hash = Sha256(req[p].file_bytes)}

\* C10: when submit_ocr_job looks the hash up and the user already has a
\* stored job with it, the call raises DuplicateFileError carrying the id of
\* such a job, writes no file and creates no job; when the user has none
\* (whatever other users have), the call goes on to create a job.
C10_DuplicateUploadIsRejected ==
    [][ \A p \in Submits :
            (pc[p] = "s_lookup" /\ pc'[p] # "s_lookup")
            => IF OwnedDuplicates(p) # {}
               THEN /\ result'[p].error = "DuplicateFileError"
                    /\ result'[p].value \in OwnedDuplicates(p)
                    /\ files' = files /\ nextId' = nextId /\ sess' = sess
               ELSE pc'[p] = "s_create" ]_vars

\* ---- C11 ------------------------------------------------------------------
\* C11: no user owns two stored jobs with the same file_hash.
C11_NoTwoJobsWithOneHash ==
    \A i, j \in DOMAIN dbJobs :
        (dbJobs[i].user_id = dbJobs[j].user_id
            /\ dbJobs[i].file_hash = dbJobs[j].file_hash) => i = j

\* ---- C12 ------------------------------------------------------------------
\* C12: when submit_ocr_job looks the hash up and the user already has two
\* stored jobs with it, the call raises DuplicateFileError and creates no job.
C12_RaceDuplicateIsRejected ==
    [][ \A p \in Submits :
            (pc[p] = "s_lookup" /\ pc'[p] # "s_lookup"
                /\ Cardinality(OwnedDuplicates(p)) >= 2)
            => /\ result'[p].error = "DuplicateFileError"
               /\ nextId' = nextId /\ sess' = sess ]_vars

\* ---- C13 ------------------------------------------------------------------
\* C13: when the session of a submit_ocr_job call whose parse-and-stage step
\* raised is closed, the job is stored as failed with the text of the raised
\* exception, and stored jobs are never removed.
C13_FailedJobIsStored ==
    [][ /\ \A p \in Submits :
            (pc[p] = "raised" /\ pc'[p] = "done" /\ job[p].status = "failed")
            => /\ job[p].id \in DOMAIN dbJobs'
               /\ dbJobs'[job[p].id].status = "failed"
               /\ dbJobs'[job[p].id].error_message = result[p].error
        /\ DOMAIN dbJobs \subseteq DOMAIN dbJobs' ]_vars

\* ---- C15 ------------------------------------------------------------------
\* the stored rows with that id owned by that user
OwnRows(staging_id, user_id) ==
    {s \in DOMAIN dbRows : s = staging_id /\ dbRows[s].user_id = user_id}

\* the stored jobs with that id owned by that user
OwnJobs(job_id, user_id) ==
    {j \in DOMAIN dbJobs : j = job_id /\ dbJobs[j].user_id = user_id}

\* C15: update_staging_row and discard_staging_row on a staging id that is not
\* stored or is another user's, and commit_staging on a job id that is not
\* stored or is another user's, raise DocumentError having written nothing,
\* and closing the session of a call that raised DocumentError changes no
\* stored job, row or ledger transaction.
C15_UnknownOrForeignIdIsRejected ==
    [][ \A p \in Slots :
          /\ (pc[p] \in {"u_get", "d_get"} /\ pc'[p] # pc[p]
                /\ OwnRows(req[p].staging_id, req[p].user_id) = {})
             => /\ result'[p] = Raised("DocumentError")
                /\ pc'[p] = "raised"
                /\ sess'[p] = EmptySession
          /\ (pc[p] = "c_get" /\ pc'[p] # pc[p]
                /\ OwnJobs(req[p].job_id, req[p].user_id) = {})
             => /\ result'[p] = Raised("DocumentError")
                /\ pc'[p] = "raised"
                /\ sess'[p] = EmptySession
          /\ (result[p].error = "DocumentError" /\ pc'[p] # pc[p])
             => dbVars' = dbVars ]_vars

\* another user's update, discard and commit of the owner's stored row and job
\* have all been rejected, and the row and the job are as the upload left them
C15_Witness ==
    /\ \E p \in Slots :
          /\ req[p].kind \in {"update", "discard"}
          /\ req[p].user_id = "u2"
          /\ pc[p] = "done"
          /\ result[p].error = "DocumentError"
          /\ req[p].staging_id \in DOMAIN dbRows
          /\ dbRows[req[p].staging_id].user_id = "u1"
          /\ dbRows[req[p].staging_id].review_status = "pending"
    /\ \E p \in Commits :
          /\ req[p].user_id = "u2"
          /\ pc[p] = "done"
          /\ result[p].error = "DocumentError"
          /\ req[p].job_id \in DOMAIN dbJobs
          /\ dbJobs[req[p].job_id].status = "review"
    /\ dbLedger = {}

\* ---- C14 ------------------------------------------------------------------
\* text extraction gave nothing: pdftotext missing, timed out, failed or silent
NoText == env.pdftotext \in {"missing", "timeout", "failed", "no_text"}

\* the image path is missing or failing
NoImages ==
    \/ ~env.easyocr_available \/ ~env.pdf2image_available
    \/ env.render = "raises" \/ env.recognise = "raises"

\* C14: process_pdf never ends by raising, and when text extraction gave
\* nothing and the image renderer or the recognition backend is missing or
\* failing, it returns an OcrResult with no rows and a diagnostic reason.
C14_UnavailabilityNeverPropagates ==
    /\ stage # "raised"
    /\ (stage = "returned" /\ NoText /\ NoImages)
        => /\ ocr_result.raised = NULL
           /\ ocr_result.rows = <<>>
           /\ ocr_result.reason # NULL

\* ---- C16 ------------------------------------------------------------------
\* the parsers in the order the dispatcher is to try them
DispatchOrder == <<"krusri", "bay", "cc", "scb_tran", "kbank">>

\* the first parser in that order that finds rows (0 when none does)
FirstWithRows ==
    IF \E i \in 1..5 : DispatchOrder[i] \in env.rows_of
    THEN CHOOSE i \in 1..5 : /\ DispatchOrder[i] \in env.rows_of
                             /\ \A k \in 1..(i - 1) : DispatchOrder[k] \notin env.rows_of
    ELSE 0

\* C16: the parsers are called in the order krusri, bay, cc, scb_tran, kbank,
\* each on the full line list; a pdftotext result carries the name and the
\* rows of the first parser in that order that finds rows, and no later parser
\* has been called; the image fallback is reached only when there are no lines
\* or all five parsers have been called and found nothing.
C16_FirstParserWithRowsWins ==
    /\ Len(called) <= 5
    /\ \A i \in 1..Len(called) :
          /\ called[i][1] = DispatchOrder[i]
          /\ called[i][2] = ExtractTextViaPdftotext(env)[1]
    /\ (stage = "returned" /\ ocr_result.source = "pdftotext")
        => /\ FirstWithRows # 0
           /\ ocr_result.format = DispatchOrder[FirstWithRows]
           /\ ocr_result.rows = ParserRows(env, DispatchOrder[FirstWithRows])
           /\ ocr_result.rows # <<>>
           /\ Len(called) = FirstWithRows
    /\ (stage \in {"fallback", "render", "recognise"}
            \/ (stage \in {"returned", "raised"} /\ ocr_result.source # "pdftotext"))
        => \/ ~HasLines(ExtractTextViaPdftotext(env))
           \/ (Len(called) = 5 /\ env.rows_of = {})

\* cc and kbank both find rows: krusri, bay and cc were called, cc won
C16_Witness ==
    /\ stage = "returned"
    /\ env.rows_of = {"cc", "kbank"}
    /\ ocr_result.format = "cc"
    /\ Len(called) = 3

\* ---- C17 ------------------------------------------------------------------
\* C17: every row a parser or the image fallback appends has amount >= 0 and
\* a transaction type that is income, expense or transfer.
C17_RowsHaveAmountAndType ==
    rule = "appended"
    => /\ emitted.amount >= 0
       /\ emitted.transaction_type \in {"income", "expense", "transfer"}

\* ---- C20 ------------------------------------------------------------------
\* C20: after the base type, every step of scb_tran, kbank and bay leaves
\* tx_type as it is or makes it transfer; overrides (1) and (2) change only
\* an expense; a transfer stays a transfer; so the appended type is the base
\* type or transfer.
C20_OverridesOnlyMoveTowardTransfer ==
    [][ line.parser \in {"scb_tran", "kbank", "bay"}
        => /\ rule \in {"card_payment", "investment", "bank_transfer", "append"}
              => /\ tx_type' \in {tx_type, "transfer"}
                 /\ tx_type = "transfer" => tx_type' = "transfer"
           /\ (rule \in {"card_payment", "investment"} /\ tx_type' # tx_type)
              => tx_type = "expense"
           /\ rule' = "appended"
              => emitted'.transaction_type \in {BaseType(line), "transfer"} ]_vars

\* a kbank income line that also has card-bill phrasing: overrides (1) and (2)
\* left it alone, override (3) made it a transfer
C20_Witness ==
    /\ rule = "appended"
    /\ line.parser = "kbank"
    /\ BaseType(line) = "income"
    /\ line.card_payment /\ line.investment
    /\ emitted.transaction_type = "transfer"

\* ---- C18 ------------------------------------------------------------------
\* the Common Era year a written year stands for: yy is 2000+yy up to 30 and
\* 2500+yy-543 above; a four-digit year above 2500 is reduced by 543
YearMeant(year) ==
    LET n == ToInt(year)
    IN  IF Len(year) = 2
        THEN (IF n <= 30 THEN 2000 + n ELSE 2500 + n - 543)
        ELSE (IF n > 2500 THEN n - 543 ELSE n)

\* C18: for a date written D/M/Y whose day and month are valid, _parse_date
\* returns the date in the year YearMeant gives, in ISO form.
C18_TwoDigitAndBuddhistYears ==
    (parsed # <<>> /\ written.shape = "dmy"
        /\ ValidDate(YearMeant(written.year), written.month, written.day))
    => parsed = <<IsoFormat(YearMeant(written.year), written.month, written.day), 85>>

\* 15/04/68 has been read as 2025-04-15
C18_Witness ==
    /\ text = <<"1", "5", "/", "0", "4", "/", "6", "8">>
    /\ parsed = << <<"2", "0", "2", "5", "-", "0", "4", "-", "1", "5">>, 85 >>

\* ---- C19 ------------------------------------------------------------------
\* C19: for a valid date with a year of at most 2500 written YYYY-MM-DD,
\* _parse_date returns that same text with non-zero confidence.
C19_IsoDatesAreAccepted ==
    (parsed # <<>> /\ written.shape = "iso"
        /\ ToInt(written.year) <= 2500
        /\ ValidDate(ToInt(written.year), written.month, written.day))
    => /\ parsed[1] = text
       /\ parsed[2] > 0

\* the table entries whose pattern is found in the text
MatchingEntries(t) ==
    {i \in 1..Len(PAYMENT_METHOD_PATTERNS) :
        PatternSearch(PAYMENT_METHOD_PATTERNS[i].pattern, t)}

\* C21: _detect_payment_method returns the method of the lowest-index table
\* entry whose pattern is found in the text, and None when no entry matches.
C21_FirstMatchWins ==
    detected # <<>> =>
        IF MatchingEntries(description) = {}
        THEN detected = <<NULL>>
        ELSE \E i \in MatchingEntries(description) :
                /\ \A j \in MatchingEntries(description) : i <= j
                /\ detected = <<PAYMENT_METHOD_PATTERNS[i].method>>

\* a text with a generic word before a specific one got the specific method
C21_Witness ==
    /\ description = <<"k plus", "promptpay">>
    /\ MatchingEntries(description) = {1, 14}
    /\ detected = <<"promptpay">>

\* the staging row s mirrors the ExtractedRow row
BuiltFrom(s, row) ==
    /\ s.review_status = "pending"
    /\ s.sort_order = row.sort_order
    /\ s.amount_thb = row.amount
    /\ s.transaction_type = row.transaction_type
    /\ s.payment_method = row.payment_method
    /\ s.counterparty_ref = row.counterparty_ref
    /\ s.counterparty_name = row.counterparty_name
    /\ s.description = row.description
    /\ s.transaction_date = row.transaction_date
    /\ s.confidence = row.confidence
    /\ s.raw_text = row.raw_text

\* C22: when submit_ocr_job returns, the job is in review with row_count equal
\* to the number of ExtractedRows and holds exactly one pending staging row per
\* ExtractedRow, with the row's sort order, amount, type, payment method,
\* counterparty reference and name, description, date, confidence and raw text.
C22_StagingRowsEqualExtractedRows ==
    \A p \in Slots :
        req[p].kind = "submit" /\ pc[p] = "returned" =>
            LET extracted == OcrRows(req[p].file_bytes)
                stored == {s \in DOMAIN RowsView(p) :
                              RowsView(p)[s].ocr_job_id = job[p].id}
            IN  /\ JobsView(p)[job[p].id].status = "review"
                /\ JobsView(p)[job[p].id].row_count = Some(Len(extracted))
                /\ Cardinality(stored) = Len(extracted)
                /\ \A i \in 1..Len(extracted) :
                      \E s \in stored : BuiltFrom(RowsView(p)[s], extracted[i])

\* C29: the rows a parser or the image fallback has appended carry the sort
\* orders 0, 1, ..., n-1 in list order, whatever lines were skipped, ignored or
\* rejected on the way.
C29_SortOrderCountsRows ==
    /\ sort_order = Len(doc_rows)
    /\ \A i \in 1..Len(doc_rows) : doc_rows[i].sort_order = i - 1

\* a row was appended although lines 2 and 4 of a KBANK statement were
\* separated by an opening-balance line the skip rule dropped
C29_Witness ==
    /\ parser = "kbank" /\ doc_pc = "returned"
    /\ Len(lines) = 4
    /\ PatternSearch(KBANK_SKIP, lines[3].description)
    /\ Len(doc_rows) = 2
    /\ doc_rows[1].raw_text = lines[2] /\ doc_rows[1].sort_order = 0
    /\ doc_rows[2].raw_text = lines[4] /\ doc_rows[2].sort_order = 1

\* BAY: line i opens a record; line j is appended to the pending description
Opening(ls, i) == ls[i].matches = "bay_date" /\ ~ ls[i].ignore
Continuation(ls, j) ==
    ls[j].matches \notin {"blank", "bay_date", "numeric", "date_range"}
    /\ ~ ls[j].ignore

\* the continuation words between line j and the next opening line, up to n
RECURSIVE ExtraOf(_, _, _)
ExtraOf(ls, j, n) ==
    IF j > n \/ Opening(ls, j) THEN <<>>
    ELSE (IF Continuation(ls, j) THEN ls[j].description ELSE <<>>)
         \o ExtraOf(ls, j + 1, n)

\* the record opened by line i, as far as lines 1..n complete it
RecordOf(ls, i, n) ==
    [date_str |-> ls[i].date, first_line |-> ls[i],
     extra |-> ExtraOf(ls, i + 1, n)]

\* the row a record yields when flushed on its own (at most one)
RowsOf(record) == Flush(Locals(<<record>>, <<>>, 0)).rows

\* the rows of the records in `closed`, in the order of their dated lines
RECURSIVE RowsThrough(_, _, _, _)
RowsThrough(ls, n, closed, i) ==
    IF i = 0 THEN <<>>
    ELSE RowsThrough(ls, n, closed, i - 1)
         \o (IF i \in closed THEN RowsOf(RecordOf(ls, i, n)) ELSE <<>>)

NotIgnored(l) == ~ l.ignore

\* _parse_bay_lines' loop run over the lines ls from the locals st
RECURSIVE BayLoop(_, _)
BayLoop(ls, st) ==
    IF ls = <<>> THEN st ELSE BayLoop(Tail(ls), BayStep(st, Head(ls)))

SkipKeywords(f) ==
    CASE f = "krusri" -> KRUSRI_SKIP
      [] f = "kbank" -> KBANK_SKIP
      [] f = "bay" -> BAY_INTERNAL
      [] OTHER -> {}

\* C25: no row a parser has appended has a description with one of that
\* parser's skip keywords, and the records the skip rules dropped took no
\* sort-order index.
C25_SkippedRecordsLeaveNoRow ==
    /\ \A i \in 1..Len(doc_rows) :
          ~ PatternSearch(SkipKeywords(parser), doc_rows[i].description)
    /\ sort_order = Len(doc_rows)

\* the line matches a grammar but its date is not a calendar date
BadDate(l) == l.date # NULL /\ ParsedDate(l.date) = NULL

\* C26: a line that matches the parser's grammar but whose date is not a valid
\* calendar date produces no row.
C26_BadDateLinesAreDropped ==
    \A i \in 1..Len(doc_rows) : ~ BadDate(doc_rows[i].raw_text)

\* the fields the claim calls editable
EditableFields ==
    {"account_id", "category_id", "amount_thb", "original_amount",
     "original_currency", "exchange_rate", "transaction_type", "payment_method",
     "description", "transaction_date", "tags"}

\* C27: a successful update_staging_row leaves the row edited, with the
\* editable fields named in the update set to the given values and every other
\* field (confidence, raw text, sort order, job, user, the editable fields not
\* named) as it was loaded, in the stored row and in the row returned; keys
\* outside the editable set change nothing, and no other staging row changes.
C27_UpdateChangesOnlyNamedFields ==
    [][\A p \in Slots :
          pc[p] = "u_save" /\ pc'[p] = "returned" =>
              LET id == req[p].staging_id
                  before == rows[p][1]
                  after == sess'[p].rows[id]
                  returned == rows'[p][1]
                  named == DOMAIN req[p].updates \cap EditableFields
              IN  /\ after.review_status = "edited"
                  /\ returned.review_status = "edited"
                  /\ \A f \in DOMAIN before \ {"review_status"} :
                        /\ after[f] = IF f \in named THEN req[p].updates[f]
                                      ELSE before[f]
                        /\ returned[f] = after[f]
                  /\ \A s \in DOMAIN RowsView(p) \ {id} :
                        (sess'[p].rows @@ dbRows')[s] = RowsView(p)[s]
                  /\ DOMAIN (sess'[p].rows @@ dbRows') = DOMAIN RowsView(p)
                  /\ dbRows' = dbRows]_vars

\* an update naming the type and five keys outside the editable set returned:
\* the type is the new one, the rest of the row is the extracted row's
C27_Witness ==
    \E p \in Slots :
        /\ pc[p] = "returned" /\ req[p].kind = "update"
        /\ "raw_text" \in DOMAIN req[p].updates
        /\ req[p].staging_id = <<1, 1>>
        /\ sess[p].rows[<<1, 1>>].review_status = "edited"
        /\ sess[p].rows[<<1, 1>>].transaction_type = "income"
        /\ sess[p].rows[<<1, 1>>].raw_text = OcrRows("pdfA")[1].raw_text
        /\ sess[p].rows[<<1, 1>>].sort_order = 0
        /\ sess[p].rows[<<1, 1>>].user_id = "u1"
        /\ sess[p].rows[<<1, 1>>].ocr_job_id = 1

\* the stored ledger transactions made from staging row s of job j
LedgerOf(s, j) ==
    {tx \in dbLedger : tx.ocr_staging_id = s /\ tx.source_document_id = j}

====
